---- MODULE Spec2Model ----
(***************************************************************************)
(* The RPC authorization layer of sansshell (auth/opa/rpcauth/rpcauth.go): *)
(* an Authorizer holding one policy and an ordered hook list, its Eval     *)
(* operation, and the unary and stream interceptors built on it.           *)
(*                                                                         *)
(* Every RPC runs in its own goroutine.  A call is modelled as a record    *)
(* that advances at the points where the code hands control to a           *)
(* collaborator (a hook, the policy evaluator, the next handler/invoker);  *)
(* everything the code does between two such points is part of one step.   *)
(***************************************************************************)
EXTENDS Naturals, Sequences, FiniteSets

\* Longest hook list handed to New.
MaxHooks == 3

\* Longest hook list of the Authorizer a stream is followed on.
MaxStreamHooks == 2

\* Most SendMsg / RecvMsg operations followed on one stream.
MaxMsgs == 3

\* The goroutines that may be inside the authorization layer at once.
Calls == {"c1", "c2"}

\* The goroutine followed when one call or one stream is looked at on its own.
Solo == {"c1"}

Methods == {"/Exec.Exec/Run", "/Sansshell.Logging/SetVerbosity"}

(***************************************************************************)
(* Errors.  A Go error is nil, a grpc status error (status.FromError       *)
(* reports ok) or any other error.  msg is the text as a list of pieces so *)
(* that wrapping with a format string is visible.                          *)
(***************************************************************************)
NilErr == [kind |-> "nil", code |-> "OK", msg |-> <<>>]

StatusError(c, m) == [kind |-> "status", code |-> c, msg |-> m]

RawError(m) == [kind |-> "raw", code |-> "Unknown", msg |-> m]

\* status.FromError(err): ok is true for a status error.
FromErrorOk(err) == err.kind = "status"

\* status.Code(err): the classification a caller observes.
Code(err) == IF err.kind = "nil" THEN "OK" ELSE err.code

\* status.Errorf(code, prefix + ": %v", err)
Errorf(c, prefix, err) == StatusError(c, <<prefix>> \o err.msg)

(***************************************************************************)
(* Messages and the authorization input.                                   *)
(***************************************************************************)
\* Values handed to an interceptor as a request: protocol messages whose
\* body the policy allows or denies, a protocol message that cannot be put
\* in structured form, and a value that is no protocol message.
ProtoAllow == [proto |-> TRUE, convertible |-> TRUE, type |-> "Exec.ExecRequest", body |-> "allow"]
ProtoDeny == [proto |-> TRUE, convertible |-> TRUE, type |-> "Exec.ExecRequest", body |-> "deny"]
ProtoOpaque == [proto |-> TRUE, convertible |-> FALSE, type |-> "Unknown", body |-> "allow"]
NotProto == [proto |-> FALSE, convertible |-> FALSE, type |-> "string", body |-> "allow"]

Requests == {ProtoAllow, ProtoDeny, ProtoOpaque, NotProto}

\* The nil *RPCAuthInput.
NilInput == [isNil |-> TRUE, method |-> "", type |-> "", message |-> <<>>, X |-> 0]

\* The structured (JSON) form of a message payload.
Structured(msg) == <<"{", msg.body, "}">>

\* NewRPCAuthInput(ctx, method, msg): the input document, or an
\* Internal-classified error when the message has no structured form.
NewRPCAuthInput(method, msg) ==
    IF msg.convertible
    THEN [input |-> [isNil |-> FALSE, method |-> method, type |-> msg.type,
                     message |-> Structured(msg), X |-> 0],
          err |-> NilErr]
    ELSE [input |-> NilInput,
          err |-> StatusError("Internal", <<"error marshalling request for auth">>)]

\* Inputs a caller may hand to Eval directly.
DirectInputs ==
    {NilInput} \cup
    {NewRPCAuthInput(m, r).input : m \in Methods, r \in {ProtoAllow, ProtoDeny}}

(***************************************************************************)
(* Hooks.  "setX" sets field X to 1; "needX" fails with a plain error      *)
(* unless X is 1; "deny" rejects with a PermissionDenied status error.     *)
(***************************************************************************)
HookKinds == {"setX", "needX", "deny"}

\* hook.Hook(ctx, input): the input as the hook leaves it, and its error.
Hook(h, input) ==
    CASE h = "setX" -> [input |-> [input EXCEPT !.X = 1], err |-> NilErr]
      [] h = "needX" -> [input |-> input,
                         err |-> IF input.X = 1 THEN NilErr
                                 ELSE RawError(<<"X is not set">>)]
      [] h = "deny" -> [input |-> input,
                        err |-> StatusError("PermissionDenied", <<"denied by hook">>)]
      [] h = "unauthenticated" ->
                       [input |-> input,
                        err |-> StatusError("Unauthenticated", <<"no peer identity">>)]

(***************************************************************************)
(* The policy evaluator.  "byMessage" allows a message whose body says so, *)
(* "byX" allows an input whose X is 1, "broken" answers like byMessage     *)
(* but always together with an error.                                      *)
(***************************************************************************)
Policies == {"byMessage", "byX", "broken"}

\* g.policy.Eval(ctx, input)
PolicyEval(p, input) ==
    CASE p = "byMessage" -> [allowed |-> input.message = Structured(ProtoAllow), err |-> NilErr]
      [] p = "byX" -> [allowed |-> input.X = 1, err |-> NilErr]
      [] p = "broken" -> [allowed |-> input.message = Structured(ProtoAllow),
                          err |-> RawError(<<"rego evaluation failed">>)]

RECURSIVE SeqsUpTo(_, _)
SeqsUpTo(S, n) ==
    IF n = 0 THEN {<<>>}
    ELSE LET shorter == SeqsUpTo(S, n - 1)
         IN shorter \cup {Append(s, x) : s \in {t \in shorter : Len(t) = n - 1}, x \in S}

VARIABLES authz, calls

vars == <<authz, calls>>

\* New(policy, authzHooks...)
New(policy, authzHooks) == [policy |-> policy, hooks |-> authzHooks]

\* A goroutine that is not inside the authorization layer.
Idle ==
    [kind |-> "none", pc |-> "idle", method |-> "", req |-> <<>>,
     arg |-> <<>>, input |-> NilInput, hookIdx |-> 0, ran |-> <<>>,
     polArgs |-> <<>>, polRets |-> <<>>, evalRets |-> <<>>,
     nextArgs |-> <<>>, nextRets |-> <<>>, ret |-> <<>>,
     cancelled |-> FALSE, recvd |-> <<>>, log |-> <<>>, wire |-> <<>>,
     torn |-> FALSE, closeSend |-> <<>>]

Init ==
    /\ authz \in {New(p, hs) : p \in Policies, hs \in SeqsUpTo(HookKinds, MaxHooks)}
    /\ calls = [c \in Calls |-> Idle]

(***************************************************************************)
(* The unary interceptors' continuation once Eval has returned.            *)
(***************************************************************************)
NoResp == "nil"

Finish(call, resp, err) ==
    [call EXCEPT !.pc = "done", !.ret = Append(@, [resp |-> resp, err |-> err])]

\* Authorize, after g.Eval: a failure is returned, otherwise the handler is next.
AuthorizeAfterEvalAlways(call, err) == [call EXCEPT !.pc = "next"]

AuthorizeAfterEval(call, err) ==
    IF err # NilErr THEN Finish(call, NoResp, err) ELSE [call EXCEPT !.pc = "next"]

\* AuthorizeClient, after g.Eval: a failure is returned, otherwise the invoker is next.
AuthorizeClientAfterEvalAlways(call, err) == [call EXCEPT !.pc = "next"]

AuthorizeClientAfterEval(call, err) ==
    IF err # NilErr THEN Finish(call, NoResp, err) ELSE [call EXCEPT !.pc = "next"]

\* A SendMsg / RecvMsg on an open stream returns err; the stream stays open
\* for the next operation and remembers how this one ended.
FinishOp(call, err) ==
    [call EXCEPT !.pc = "open",
                 !.ret = Append(@, [resp |-> NoResp, err |-> err]),
                 !.log = Append(@, [msg |-> call.req[1], err |-> err,
                                    attempted |-> call.nextArgs # <<>>])]

\* wrappedClientStream.SendMsg, after e.authz.Eval: a failure is returned,
\* otherwise the underlying stream's SendMsg is next.
SendMsgAfterEvalAlways(call, err) == [call EXCEPT !.pc = "next"]

SendMsgAfterEvalLatched(call, err) ==
    IF err # NilErr THEN FinishOp(call, err)
    ELSE IF \E k \in 1..Len(call.log) : call.log[k].err # NilErr
         THEN FinishOp(call, call.log[Len(call.log)].err)
         ELSE [call EXCEPT !.pc = "next"]

SendMsgAfterEval(call, err) ==
    IF err # NilErr THEN FinishOp(call, err) ELSE [call EXCEPT !.pc = "next"]

\* wrappedStream.RecvMsg, after e.authz.Eval: its error, or nil, is returned.
RecvMsgAfterEvalAlwaysNil(call, err) == FinishOp(call, NilErr)

RecvMsgAfterEvalLatched(call, err) ==
    IF err # NilErr THEN FinishOp(call, err)
    ELSE IF \E k \in 1..Len(call.log) : call.log[k].err # NilErr
         THEN FinishOp(call, call.log[Len(call.log)].err)
         ELSE FinishOp(call, NilErr)

RecvMsgAfterEval(call, err) ==
    IF err # NilErr THEN FinishOp(call, err) ELSE FinishOp(call, NilErr)

\* Eval returns err to whoever called it.
EvalReturn(call, err) ==
    LET returned == [call EXCEPT !.evalRets = Append(@, err)]
    IN CASE call.kind = "eval" -> Finish(returned, NoResp, err)
         [] call.kind = "server" -> AuthorizeAfterEval(returned, err)
         [] call.kind = "client" -> AuthorizeClientAfterEval(returned, err)
         [] call.kind = "cstream" -> SendMsgAfterEval(returned, err)
         [] call.kind = "sstream" -> RecvMsgAfterEval(returned, err)

(***************************************************************************)
(* Authorizer.Eval                                                         *)
(***************************************************************************)
\* Where Eval goes once i hooks have succeeded.
AfterHooksRetry(call, i) ==
    IF i >= 1 /\ Len(call.ran) = i
    THEN [call EXCEPT !.pc = "hooks", !.hookIdx = i]
    ELSE IF i < Len(authz.hooks)
         THEN [call EXCEPT !.pc = "hooks", !.hookIdx = i + 1]
         ELSE [call EXCEPT !.pc = "policy", !.hookIdx = 0]

AfterHooks(call, i) ==
    IF i < Len(authz.hooks)
    THEN [call EXCEPT !.pc = "hooks", !.hookIdx = i + 1]
    ELSE [call EXCEPT !.pc = "policy", !.hookIdx = 0]

\* Entry of Eval up to the first hook: the nil check.
EvalEnterNoNilCheck(call, input) ==
    AfterHooks([call EXCEPT !.arg = Append(@, input), !.input = input], 0)

EvalEnter(call, input) ==
    LET entered == [call EXCEPT !.arg = Append(@, input), !.input = input]
    IN IF input.isNil
       THEN EvalReturn(entered,
                       StatusError("InvalidArgument", <<"policy input cannot be nil">>))
       ELSE AfterHooks(entered, 0)

\* The i-th hook to run: range g.hooks.
HookAtReversed(hooks, i) == hooks[Len(hooks) + 1 - i]

HookAt(hooks, i) == hooks[i]

\* The error Eval returns for a hook's error.
HookErrorAlwaysWrapped(err) == Errorf("Internal", "authz hook error", err)

HookErrorNeverWrapped(err) == err

HookError(err) ==
    IF FromErrorOk(err) THEN err ELSE Errorf("Internal", "authz hook error", err)

\* The body of the loop over g.hooks after hook i has returned r.
AfterHookNoShortCircuit(call, i, r) == AfterHooks(call, i)

AfterHook(call, i, r) ==
    IF r.err # NilErr THEN EvalReturn(call, HookError(r.err)) ELSE AfterHooks(call, i)

\* What Eval returns for the evaluator's answer.
PolicyResultIgnoringErr(allowed, err) ==
    IF ~allowed
    THEN StatusError("PermissionDenied", <<"OPA policy does not permit this request">>)
    ELSE NilErr

PolicyResultDenyFirst(allowed, err) ==
    IF ~allowed
    THEN StatusError("PermissionDenied", <<"OPA policy does not permit this request">>)
    ELSE IF err # NilErr
         THEN Errorf("Internal", "authz policy evaluation error", err)
         ELSE NilErr

PolicyResultDenyAsInternal(allowed, err) ==
    IF err # NilErr \/ ~allowed
    THEN Errorf("Internal", "authz policy evaluation error", err)
    ELSE NilErr

PolicyResult(allowed, err) ==
    IF err # NilErr
    THEN Errorf("Internal", "authz policy evaluation error", err)
    ELSE IF ~allowed
         THEN StatusError("PermissionDenied", <<"OPA policy does not permit this request">>)
         ELSE NilErr

\* A caller invokes g.Eval(ctx, input) directly.
Eval(c, input) ==
    /\ calls[c].pc = "idle"
    /\ calls' = [calls EXCEPT ![c] = EvalEnter([Idle EXCEPT !.kind = "eval"], input)]
    /\ UNCHANGED authz

\* What a collaborator that honours ctx reports once ctx is cancelled:
\* ctx.Err() itself, or (a hook) the status made from it.
ContextCanceled == RawError(<<"context canceled">>)

CancelErrors == {ContextCanceled, StatusError("Canceled", <<"context canceled">>)}

\* hook.Hook(ctx, input) under the call's ctx.
HookReturns(h, call) ==
    IF call.cancelled
    THEN {[input |-> call.input, err |-> e] : e \in CancelErrors}
    ELSE {Hook(h, call.input)}

\* g.policy.Eval(ctx, input) under the call's ctx.
PolicyReturns(p, call) ==
    IF call.cancelled
    THEN {[allowed |-> FALSE, err |-> ContextCanceled]}
    ELSE {PolicyEval(p, call.input)}

\* The call's ctx is cancelled while a hook or the evaluator is running.
Cancel(c) ==
    /\ calls[c].pc \in {"hooks", "policy"}
    /\ ~calls[c].cancelled
    /\ calls' = [calls EXCEPT ![c].cancelled = TRUE]
    /\ UNCHANGED authz

\* One iteration of the loop over g.hooks: the next hook runs on the input.
RunHookSharedInput(c) ==
    LET call == calls[c]
        i == call.hookIdx
        h == HookAt(authz.hooks, i)
        others == {d \in Calls \ {c} : calls[d].pc \in {"hooks", "policy"}}
        shared == IF others = {} THEN call.input
                  ELSE calls[CHOOSE d \in others : TRUE].input
    IN /\ call.pc = "hooks"
       /\ \E r \in {Hook(h, shared)} :
             calls' = [calls EXCEPT ![c] =
                 AfterHook([call EXCEPT !.input = r.input,
                                        !.ran = Append(@, [hook |-> h, before |-> shared,
                                                           after |-> r.input, err |-> r.err])],
                           i, r)]
       /\ UNCHANGED authz

RunHook(c) ==
    LET call == calls[c]
        i == call.hookIdx
        h == HookAt(authz.hooks, i)
    IN /\ call.pc = "hooks"
       /\ \E r \in HookReturns(h, call) :
             calls' = [calls EXCEPT ![c] =
                 AfterHook([call EXCEPT !.input = r.input,
                                        !.ran = Append(@, [hook |-> h, before |-> call.input,
                                                           after |-> r.input, err |-> r.err])],
                           i, r)]
       /\ UNCHANGED authz

\* g.policy.Eval(ctx, input) and the rest of Eval.
EvalPolicyExplainingDenial(c) ==
    LET call == calls[c]
    IN /\ call.pc = "policy"
       /\ \E r \in PolicyReturns(authz.policy, call) :
             calls' = [calls EXCEPT ![c] =
                 EvalReturn([call EXCEPT !.polArgs = Append(@, call.input),
                                         !.polRets = Append(@, r)],
                            IF r.err = NilErr /\ ~r.allowed
                            THEN StatusError("PermissionDenied",
                                             <<"OPA policy does not permit", call.input.method>>
                                             \o call.input.message)
                            ELSE PolicyResult(r.allowed, r.err))]
       /\ UNCHANGED authz

EvalPolicy(c) ==
    LET call == calls[c]
    IN /\ call.pc = "policy"
       /\ \E r \in PolicyReturns(authz.policy, call) :
             calls' = [calls EXCEPT ![c] =
                 EvalReturn([call EXCEPT !.polArgs = Append(@, call.input),
                                         !.polRets = Append(@, r)],
                            PolicyResult(r.allowed, r.err))]
       /\ UNCHANGED authz

(***************************************************************************)
(* The unary interceptors.                                                 *)
(***************************************************************************)
NotProtoErrorUnclassified == RawError(<<"request is not proto.Message">>)

NotProtoError == StatusError("Internal", <<"unable to authorize request which is not proto.Message">>)

\* Authorize(ctx, req, info, handler) up to the first hook.
Authorize(c, method, req) ==
    LET call == [Idle EXCEPT !.kind = "server", !.method = method, !.req = <<req>>]
        built == NewRPCAuthInput(method, req)
    IN /\ calls[c].pc = "idle"
       /\ calls' = [calls EXCEPT ![c] =
             IF ~req.proto THEN Finish(call, NoResp, NotProtoError)
             ELSE IF built.err # NilErr
                  THEN Finish(call, NoResp,
                              Errorf("Internal", "unable to create auth input", built.err))
                  ELSE EvalEnter(call, built.input)]
       /\ UNCHANGED authz

\* What the next handler may answer.
HandlerResults ==
    {[resp |-> "response", err |-> NilErr],
     [resp |-> NoResp, err |-> RawError(<<"handler failed">>)]}

\* return handler(ctx, req)
Handler(c) ==
    LET call == calls[c]
    IN /\ call.pc = "next"
       /\ call.kind = "server"
       /\ \E r \in HandlerResults :
             calls' = [calls EXCEPT ![c] =
                 Finish([call EXCEPT !.nextArgs = Append(@, call.req[1]),
                                     !.nextRets = Append(@, r)],
                        r.resp, r.err)]
       /\ UNCHANGED authz

\* AuthorizeClient(ctx, method, req, reply, cc, invoker, opts...) up to the first hook.
AuthorizeClient(c, method, req) ==
    LET call == [Idle EXCEPT !.kind = "client", !.method = method, !.req = <<req>>]
        built == NewRPCAuthInput(method, req)
    IN /\ calls[c].pc = "idle"
       /\ calls' = [calls EXCEPT ![c] =
             IF ~req.proto THEN Finish(call, NoResp, NotProtoError)
             ELSE IF built.err # NilErr
                  THEN Finish(call, NoResp,
                              Errorf("Internal", "unable to create auth input", built.err))
                  ELSE EvalEnter(call, built.input)]
       /\ UNCHANGED authz

\* What the underlying invoker may answer.
InvokerResults ==
    {[resp |-> NoResp, err |-> NilErr],
     [resp |-> NoResp, err |-> StatusError("Unavailable", <<"transport failed">>)]}

\* return invoker(ctx, method, req, reply, cc, opts...)
Invoker(c) ==
    LET call == calls[c]
    IN /\ call.pc = "next"
       /\ call.kind = "client"
       /\ \E r \in InvokerResults :
             calls' = [calls EXCEPT ![c] =
                 Finish([call EXCEPT !.nextArgs = Append(@, call.req[1]),
                                     !.nextRets = Append(@, r)],
                        r.resp, r.err)]
       /\ UNCHANGED authz

\* The call has returned to its caller; the goroutine ends.
Return(c) ==
    /\ calls[c].pc = "done"
    /\ calls' = [calls EXCEPT ![c] = Idle]
    /\ UNCHANGED authz

Next ==
    \E c \in Calls :
        \/ \E input \in DirectInputs : Eval(c, input)
        \/ RunHook(c)
        \/ EvalPolicy(c)
        \/ \E m \in Methods, r \in Requests : Authorize(c, m, r)
        \/ Handler(c)
        \/ \E m \in Methods, r \in Requests : AuthorizeClient(c, m, r)
        \/ Invoker(c)
        \/ Return(c)

Spec == Init /\ [][Next]_vars

(***************************************************************************)
(* The stream interceptors.  A stream is one call record: it is opened,    *)
(* then SendMsg (client) or RecvMsg (server) operations follow one another *)
(* on it, each with an Eval of its own, until it is closed.                *)
(***************************************************************************)
\* The fields of the operation in progress, cleared when the next one starts.
StartOp(call, req) ==
    [call EXCEPT !.req = <<req>>, !.arg = <<>>, !.input = NilInput, !.hookIdx = 0,
                 !.ran = <<>>, !.polArgs = <<>>, !.polRets = <<>>, !.evalRets = <<>>,
                 !.nextArgs = <<>>, !.nextRets = <<>>, !.ret = <<>>, !.recvd = <<>>]

\* What the streamer may answer when asked to open the stream.
StreamerResults == {NilErr, StatusError("Unavailable", <<"connection refused">>)}

\* What AuthorizeClientStream returns for the streamer's error.
StreamerErrorMessageLost(err) == StatusError("Internal", <<"can't create clientStream">>)

StreamerError(err) == Errorf("Internal", "can't create clientStream", err)

\* AuthorizeClientStream(ctx, desc, cc, method, streamer, opts...)
AuthorizeClientStream(c, method) ==
    LET call == [Idle EXCEPT !.kind = "cstream", !.method = method]
    IN /\ calls[c].pc = "idle"
       /\ \E err \in StreamerResults :
             calls' = [calls EXCEPT ![c] =
                 IF err # NilErr
                 THEN Finish([call EXCEPT !.nextRets = <<[resp |-> NoResp, err |-> err]>>],
                             NoResp, StreamerError(err))
                 ELSE [call EXCEPT !.pc = "open"]]
       /\ UNCHANGED authz

\* wrappedClientStream.SendMsg(req) up to the first hook.
SendMsg(c, req) ==
    LET call == StartOp(calls[c], req)
        built == NewRPCAuthInput(call.method, req)
    IN /\ calls[c].pc = "open"
       /\ calls[c].kind = "cstream"
       /\ Len(calls[c].log) < MaxMsgs
       /\ calls' = [calls EXCEPT ![c] =
             IF ~req.proto THEN FinishOp(call, NotProtoError)
             ELSE IF built.err # NilErr
                  THEN FinishOp(call, built.err)
                  ELSE EvalEnter(call, built.input)]
       /\ UNCHANGED authz

\* The transport's answer to a send: nil, or an error that ends the stream.
StreamClosed == RawError(<<"EOF">>)

\* return e.ClientStream.SendMsg(req)
ClientStreamSendMsg(c) ==
    LET call == calls[c]
    IN /\ call.pc = "next"
       /\ call.kind = "cstream"
       /\ \E err \in (IF call.torn THEN {StreamClosed} ELSE {NilErr, StreamClosed}) :
             calls' = [calls EXCEPT ![c] =
                 FinishOp([call EXCEPT !.nextArgs = Append(@, call.req[1]),
                                       !.nextRets = Append(@, [resp |-> NoResp, err |-> err]),
                                       !.wire = IF err = NilErr THEN Append(@, call.req[1]) ELSE @,
                                       !.torn = (err # NilErr)],
                          err)]
       /\ UNCHANGED authz

\* What the transport may answer to a half-close.
CloseSendResults == {NilErr, StreamClosed}

\* wrappedClientStream.CloseSend(): the embedded ClientStream's method.  No
\* more messages go out on the stream afterwards.
CloseSend(c) ==
    LET call == calls[c]
    IN /\ call.pc = "open"
       /\ call.kind = "cstream"
       /\ call.closeSend = <<>>
       /\ \E err \in CloseSendResults :
             calls' = [calls EXCEPT ![c] =
                 [call EXCEPT !.closeSend = <<[under |-> err, ret |-> err]>>,
                              !.torn = TRUE]]
       /\ UNCHANGED authz

\* AuthorizeStream(srv, ss, info, handler): the handler starts on the wrapped stream.
AuthorizeStream(c, method) ==
    /\ calls[c].pc = "idle"
    /\ calls' = [calls EXCEPT ![c] =
          [Idle EXCEPT !.kind = "sstream", !.method = method, !.pc = "open"]]
    /\ UNCHANGED authz

\* A destination that the transport could not fill.
NoMsg == [proto |-> FALSE, convertible |-> FALSE, type |-> "", body |-> ""]

\* The errors of the underlying stream's RecvMsg: end of stream, or a
\* status error of the transport.
RecvErrors == {StreamClosed, StatusError("Unavailable", <<"transport is closing">>)}

\* wrappedStream.RecvMsg when e.ServerStream.RecvMsg(req) returned err.
RecvFailedWrapped(call, err) == FinishOp(call, Errorf("Internal", "recv", err))

RecvFailed(call, err) == FinishOp(call, err)

\* wrappedStream.RecvMsg(req) up to the first hook: the underlying stream
\* fills req or fails; a filled req is then put to Eval.
RecvMsg(c) ==
    /\ calls[c].pc = "open"
    /\ calls[c].kind = "sstream"
    /\ Len(calls[c].log) < MaxMsgs
    /\ \/ \E err \in (IF calls[c].torn THEN {StreamClosed} ELSE RecvErrors) :
             calls' = [calls EXCEPT ![c] =
                RecvFailed([StartOp(calls[c], NoMsg) EXCEPT
                                !.recvd = <<[msg |-> NoMsg, err |-> err]>>,
                                !.torn = TRUE],
                           err)]
       \/ /\ ~calls[c].torn
          /\ \E req \in Requests :
                LET call == [StartOp(calls[c], req) EXCEPT
                                 !.recvd = <<[msg |-> req, err |-> NilErr]>>]
                    built == NewRPCAuthInput(call.method, req)
                IN calls' = [calls EXCEPT ![c] =
                      IF ~req.proto THEN FinishOp(call, NotProtoError)
                      ELSE IF built.err # NilErr
                           THEN FinishOp(call, built.err)
                           ELSE EvalEnter(call, built.input)]
    /\ UNCHANGED authz

\* The stream is closed (the client is done sending, the handler returns).
CloseStream(c) ==
    /\ calls[c].pc = "open"
    /\ calls' = [calls EXCEPT ![c] = Idle]
    /\ UNCHANGED authz

\* Authorizers a stream is followed on; a hook may also reject with a code
\* of its own choosing.
StreamHookKinds == HookKinds \cup {"unauthenticated"}

InitStream ==
    /\ authz \in {New(p, hs) : p \in Policies, hs \in SeqsUpTo(StreamHookKinds, MaxStreamHooks)}
    /\ calls = [c \in Calls |-> Idle]

NextStream ==
    \E c \in Solo :
        \/ \E input \in DirectInputs : Eval(c, input)
        \/ RunHook(c)
        \/ EvalPolicy(c)
        \/ \E m \in Methods, r \in Requests : Authorize(c, m, r)
        \/ Handler(c)
        \/ \E m \in Methods, r \in Requests : AuthorizeClient(c, m, r)
        \/ Invoker(c)
        \/ Return(c)
        \/ \E m \in Methods : AuthorizeClientStream(c, m)
        \/ \E r \in Requests : SendMsg(c, r)
        \/ ClientStreamSendMsg(c)
        \/ CloseSend(c)
        \/ \E m \in Methods : AuthorizeStream(c, m)
        \/ RecvMsg(c)
        \/ CloseStream(c)

SpecStream == InitStream /\ [][NextStream]_vars

\* One Eval whose ctx may be cancelled while it runs.
NextCancel ==
    \E c \in Solo :
        \/ \E input \in DirectInputs : Eval(c, input)
        \/ RunHook(c)
        \/ EvalPolicy(c)
        \/ Cancel(c)
        \/ Return(c)

SpecCancel == Init /\ [][NextCancel]_vars

TypeOK ==
    /\ authz.policy \in Policies
    /\ Len(authz.hooks) <= MaxHooks
    /\ \A c \in Calls : calls[c].pc \in {"idle", "hooks", "policy", "next", "done", "open"}

(***************************************************************************)
(* Properties.  The history fields of a call record what its Eval was      *)
(* given (arg), the hooks that ran (ran), what the evaluator was asked and *)
(* answered (polArgs, polRets), what Eval returned (evalRets), what the    *)
(* next handler/invoker was given and answered (nextArgs, nextRets) and    *)
(* what the caller got back (ret).                                         *)
(***************************************************************************)
\* Every hook that ran in the call returned no error.
HooksAllSucceeded(call) ==
    /\ Len(call.ran) = Len(authz.hooks)
    /\ \A i \in 1..Len(call.ran) : call.ran[i].err = NilErr

\* e's text ends with the text of orig.
Carries(e, orig) ==
    /\ Len(e.msg) >= Len(orig.msg)
    /\ SubSeq(e.msg, Len(e.msg) - Len(orig.msg) + 1, Len(e.msg)) = orig.msg

\* C1: Eval returns nil if and only if the input is non-nil, every registered
\* hook returned no error and the evaluator answered allowed = true with no
\* error; a hook error or an evaluator error never results in a grant.
C1_EvalGrantsIffAllSucceed ==
    \A c \in Calls :
        LET call == calls[c]
        IN \A k \in 1..Len(call.evalRets) :
              (call.evalRets[k] = NilErr)
              <=> /\ ~call.arg[k].isNil
                  /\ HooksAllSucceeded(call)
                  /\ Len(call.polRets) = 1
                  /\ call.polRets[1].allowed
                  /\ call.polRets[1].err = NilErr

C1_Witness ==
    \E c \in Calls :
        /\ calls[c].evalRets = <<NilErr>>
        /\ Len(calls[c].ran) >= 2
        /\ calls[c].polRets # <<>>

\* C2: whenever the evaluator answers false (a deny decision), Eval returns a
\* PermissionDenied-classified error, whatever the hooks did to the input.
C2_DenyIsPermissionDenied ==
    \A c \in Calls :
        LET call == calls[c]
        IN (/\ call.polRets # <<>>
            /\ ~call.polRets[1].allowed
            /\ call.polRets[1].err = NilErr)
           => /\ Len(call.evalRets) = 1
              /\ call.evalRets[1].kind = "status"
              /\ Code(call.evalRets[1]) = "PermissionDenied"

C2_Witness ==
    \E c \in Calls :
        /\ calls[c].polRets # <<>>
        /\ ~calls[c].polRets[1].allowed
        /\ calls[c].polRets[1].err = NilErr
        /\ \E i \in 1..Len(calls[c].ran) : calls[c].ran[i].before # calls[c].ran[i].after
        /\ Code(calls[c].evalRets[1]) = "PermissionDenied"

\* C3: Eval on a nil input returns InvalidArgument, and no hook and no
\* evaluator call is made in that Eval, for any hook list and policy.
C3_NilInputInvalidArgument ==
    \A c \in Calls :
        LET call == calls[c]
        IN (call.arg # <<>> /\ call.arg[1].isNil)
           => /\ Len(call.evalRets) = 1
              /\ call.evalRets[1].kind = "status"
              /\ Code(call.evalRets[1]) = "InvalidArgument"
              /\ call.ran = <<>>
              /\ call.polArgs = <<>>
              /\ call.polRets = <<>>

C3_Witness ==
    \E c \in Calls :
        /\ calls[c].arg # <<>>
        /\ calls[c].arg[1].isNil
        /\ Len(authz.hooks) = MaxHooks
        /\ Code(calls[c].evalRets[1]) = "InvalidArgument"

\* C4: the hook chain short-circuits: once the hook at position i has
\* returned an error, no hook after i runs and the evaluator is not invoked
\* in that Eval, which has returned.
C4_HookChainShortCircuits ==
    \A c \in Calls :
        LET call == calls[c]
        IN \A i \in 1..Len(call.ran) :
              call.ran[i].err # NilErr
              => /\ Len(call.ran) = i
                 /\ call.polArgs = <<>>
                 /\ call.polRets = <<>>
                 /\ Len(call.evalRets) = 1
                 /\ call.pc \notin {"hooks", "policy"}

C4_Witness ==
    \E c \in Calls :
        /\ Len(authz.hooks) = 3
        /\ Len(calls[c].ran) = 2
        /\ calls[c].ran[1].err = NilErr
        /\ calls[c].ran[2].err # NilErr
        /\ calls[c].pc = "done"
        /\ calls[c].polRets = <<>>

\* C5: hooks run in the order given to New, each on the input as the
\* previous hook left it, and the evaluator gets the input as the last hook
\* left it; with setX before needX the evaluation gets past the hooks, with
\* needX before setX it fails at needX.
C5_HooksRunInRegistrationOrder ==
    \A c \in Calls :
        LET call == calls[c]
            last == IF call.ran = <<>> THEN call.arg[1] ELSE call.ran[Len(call.ran)].after
        IN /\ Len(call.ran) <= Len(authz.hooks)
           /\ \A k \in 1..Len(call.ran) :
                 /\ call.ran[k].hook = authz.hooks[k]
                 /\ call.ran[k].before =
                       IF k = 1 THEN call.arg[1] ELSE call.ran[k - 1].after
           /\ \A k \in 1..Len(call.polArgs) :
                 /\ Len(call.ran) = Len(authz.hooks)
                 /\ call.polArgs[k] = last
           /\ (/\ authz.hooks = <<"setX", "needX">>
               /\ call.evalRets # <<>>
               /\ ~call.arg[1].isNil)
              => /\ Len(call.ran) = 2
                 /\ call.ran[2].err = NilErr
                 /\ Len(call.polArgs) = 1
                 /\ call.polArgs[1].X = 1
           /\ (/\ authz.hooks = <<"needX", "setX">>
               /\ call.evalRets # <<>>
               /\ ~call.arg[1].isNil)
              => /\ Len(call.ran) = 1
                 /\ call.ran[1].hook = "needX"
                 /\ call.ran[1].err # NilErr
                 /\ call.evalRets[1] # NilErr
                 /\ call.polArgs = <<>>

C5_Witness ==
    \E c \in Calls :
        /\ authz.hooks = <<"setX", "needX">>
        /\ authz.policy = "byX"
        /\ calls[c].arg # <<>>
        /\ calls[c].arg[1].X = 0
        /\ calls[c].polArgs # <<>>
        /\ calls[c].polArgs[1].X = 1
        /\ calls[c].evalRets = <<NilErr>>

\* C6: when a hook returns an already-classified (status) error, Eval
\* returns that very error, classification included, and the evaluator is
\* not invoked.
C6_ClassifiedHookErrorPropagates ==
    \A c \in Calls :
        LET call == calls[c]
        IN \A i \in 1..Len(call.ran) :
              FromErrorOk(call.ran[i].err)
              => /\ call.evalRets = <<call.ran[i].err>>
                 /\ call.polArgs = <<>>
                 /\ call.polRets = <<>>

C6_Witness ==
    \E c \in Calls :
        /\ calls[c].ran # <<>>
        /\ Code(calls[c].ran[Len(calls[c].ran)].err) = "PermissionDenied"
        /\ Code(calls[c].evalRets[1]) = "PermissionDenied"
        /\ authz.policy = "byX"

\* C7: when a hook returns an unclassified error, Eval returns an
\* Internal-classified status error that carries the hook's message; no
\* caller is handed the raw error.
C7_UnclassifiedHookErrorIsInternal ==
    \A c \in Calls :
        LET call == calls[c]
        IN \A i \in 1..Len(call.ran) :
              call.ran[i].err.kind = "raw"
              => /\ Len(call.evalRets) = 1
                 /\ call.evalRets[1].kind = "status"
                 /\ Code(call.evalRets[1]) = "Internal"
                 /\ Carries(call.evalRets[1], call.ran[i].err)
                 /\ call.evalRets[1] # call.ran[i].err
                 /\ call.ret = <<[resp |-> NoResp, err |-> call.evalRets[1]]>>

C7_Witness ==
    \E c \in Calls :
        /\ calls[c].ran # <<>>
        /\ calls[c].ran[Len(calls[c].ran)].err.kind = "raw"
        /\ calls[c].ret # <<>>
        /\ Code(calls[c].ret[1].err) = "Internal"

\* C8: when all hooks succeed and the evaluator returns an error, Eval
\* returns an Internal-classified error, never nil and never
\* PermissionDenied, whatever allowed value came with the error.
C8_EvaluatorErrorIsInternal ==
    \A c \in Calls :
        LET call == calls[c]
        IN (call.polRets # <<>> /\ call.polRets[1].err # NilErr)
           => /\ HooksAllSucceeded(call)
              /\ Len(call.evalRets) = 1
              /\ call.evalRets[1].kind = "status"
              /\ Code(call.evalRets[1]) = "Internal"

C8_Witness ==
    \E c \in Calls, d \in Calls :
        /\ calls[c].polRets # <<>> /\ calls[d].polRets # <<>>
        /\ calls[c].polRets[1].err # NilErr /\ calls[d].polRets[1].err # NilErr
        /\ calls[c].polRets[1].allowed /\ ~calls[d].polRets[1].allowed
        /\ Code(calls[c].evalRets[1]) = "Internal"
        /\ Code(calls[d].evalRets[1]) = "Internal"

\* C9: in Authorize the handler is invoked only after Eval succeeded on the
\* input built from the call's method and request, and the handler's result
\* is returned unchanged; when Eval fails its error is returned and the
\* handler is never invoked.
C9_AuthorizeGatesHandler ==
    \A c \in Calls :
        LET call == calls[c]
        IN call.kind = "server"
           => /\ call.nextArgs # <<>>
                 => /\ call.evalRets = <<NilErr>>
                    /\ call.arg = <<NewRPCAuthInput(call.method, call.req[1]).input>>
                    /\ call.nextArgs = <<call.req[1]>>
                    /\ call.ret = call.nextRets
                    /\ Len(call.ret) = 1
              /\ call.evalRets = <<NilErr>>
                 => \/ call.pc = "next" /\ call.nextArgs = <<>>
                    \/ call.pc = "done" /\ Len(call.nextArgs) = 1
              /\ (call.evalRets # <<>> /\ call.evalRets[1] # NilErr)
                 => /\ call.nextArgs = <<>>
                    /\ call.pc = "done"
                    /\ call.ret = <<[resp |-> NoResp, err |-> call.evalRets[1]]>>

C9_Witness ==
    \E c \in Calls, d \in Calls :
        /\ calls[c].kind = "server" /\ calls[d].kind = "server"
        /\ calls[c].evalRets = <<NilErr>>
        /\ calls[c].ret = <<[resp |-> "response", err |-> NilErr]>>
        /\ Len(calls[c].nextArgs) = 1
        /\ calls[d].evalRets # <<>>
        /\ Code(calls[d].evalRets[1]) = "PermissionDenied"
        /\ calls[d].pc = "done"
        /\ calls[d].nextArgs = <<>>

\* C10: in AuthorizeClient the invoker is called only after Eval succeeded
\* on the input built from the method and the outgoing request; when Eval
\* fails its error is returned and the invoker is never called.
C10_AuthorizeClientGatesInvoker ==
    \A c \in Calls :
        LET call == calls[c]
        IN call.kind = "client"
           => /\ call.nextArgs # <<>>
                 => /\ call.evalRets = <<NilErr>>
                    /\ call.arg = <<NewRPCAuthInput(call.method, call.req[1]).input>>
                    /\ call.nextArgs = <<call.req[1]>>
                    /\ call.ret = call.nextRets
                    /\ Len(call.ret) = 1
              /\ call.evalRets = <<NilErr>>
                 => \/ call.pc = "next" /\ call.nextArgs = <<>>
                    \/ call.pc = "done" /\ Len(call.nextArgs) = 1
              /\ (call.evalRets # <<>> /\ call.evalRets[1] # NilErr)
                 => /\ call.nextArgs = <<>>
                    /\ call.pc = "done"
                    /\ call.ret = <<[resp |-> NoResp, err |-> call.evalRets[1]]>>

C10_Witness ==
    \E c \in Calls, d \in Calls :
        /\ calls[c].kind = "client" /\ calls[d].kind = "client"
        /\ calls[c].evalRets = <<NilErr>>
        /\ Len(calls[c].nextArgs) = 1
        /\ calls[c].ret = <<[resp |-> NoResp, err |-> NilErr]>>
        /\ calls[d].evalRets # <<>>
        /\ calls[d].evalRets[1] # NilErr
        /\ calls[d].pc = "done"
        /\ calls[d].nextArgs = <<>>

(***************************************************************************)
(* Properties of the stream interceptors.  On a stream the history fields  *)
(* describe the SendMsg / RecvMsg in progress or last ended; log has one   *)
(* entry per ended operation and wire the messages the transport took.     *)
(***************************************************************************)
\* What a sequential run of the hooks from position i makes of input.
RECURSIVE HooksOutcome(_, _, _)
HooksOutcome(hooks, i, input) ==
    IF i > Len(hooks) THEN [input |-> input, err |-> NilErr]
    ELSE LET r == Hook(hooks[i], input)
         IN IF r.err # NilErr THEN r ELSE HooksOutcome(hooks, i + 1, r.input)

\* What Eval on input alone, with Authorizer a, is expected to return.
EvalOutcome(a, input) ==
    IF input.isNil
    THEN StatusError("InvalidArgument", <<"policy input cannot be nil">>)
    ELSE LET h == HooksOutcome(a.hooks, 1, input)
             p == PolicyEval(a.policy, h.input)
         IN IF h.err # NilErr
            THEN IF h.err.kind = "status" THEN h.err
                 ELSE StatusError("Internal", <<"authz hook error">> \o h.err.msg)
            ELSE IF p.err # NilErr
                 THEN StatusError("Internal", <<"authz policy evaluation error">> \o p.err.msg)
                 ELSE IF p.allowed THEN NilErr
                      ELSE StatusError("PermissionDenied",
                                       <<"OPA policy does not permit this request">>)

\* The message can be put to Eval.
Buildable(msg) == msg.proto /\ msg.convertible

\* What Eval is expected to return for msg on the stream of call.
Expected(call, msg) == EvalOutcome(authz, NewRPCAuthInput(call.method, msg).input)

\* The messages of the log entries that ended without error.
RECURSIVE Passed(_)
Passed(log) ==
    IF log = <<>> THEN <<>>
    ELSE IF Head(log).err = NilErr THEN <<Head(log).msg>> \o Passed(Tail(log))
         ELSE Passed(Tail(log))

\* C11: on a wrapped client stream every message given to SendMsg is
\* authorized on its own before transmission: the underlying SendMsg is
\* called for a message only after Eval succeeded on the input built from
\* the stream's method and that message; when Eval fails the send returns
\* that error and the message is not transmitted.
C11_SendMsgAuthorizesBeforeSending ==
    \A c \in Calls :
        LET call == calls[c]
        IN call.kind = "cstream"
           => /\ call.nextArgs # <<>>
                 => /\ call.evalRets = <<NilErr>>
                    /\ call.arg = <<NewRPCAuthInput(call.method, call.req[1]).input>>
                    /\ call.nextArgs = <<call.req[1]>>
              /\ call.evalRets = <<NilErr>>
                 => \/ call.pc = "next" /\ call.nextArgs = <<>>
                    \/ call.pc = "open" /\ Len(call.nextArgs) = 1
              /\ (call.evalRets # <<>> /\ call.evalRets[1] # NilErr)
                 => /\ call.nextArgs = <<>>
                    /\ call.pc = "open"
                    /\ call.ret = <<[resp |-> NoResp, err |-> call.evalRets[1]]>>
                    /\ call.log[Len(call.log)] =
                          [msg |-> call.req[1], err |-> call.evalRets[1], attempted |-> FALSE]
              /\ call.wire = Passed(call.log)
              /\ \A k \in 1..Len(call.log) :
                    call.log[k].attempted => Expected(call, call.log[k].msg) = NilErr

C11_Witness ==
    \E c \in Calls :
        /\ calls[c].kind = "cstream"
        /\ Len(calls[c].log) = 2
        /\ calls[c].log[1].err = NilErr
        /\ Code(calls[c].log[2].err) = "PermissionDenied"
        /\ calls[c].wire = <<calls[c].log[1].msg>>
        /\ calls[c].ran # <<>>

\* C12: on a wrapped server stream a message is first received from the
\* underlying stream and then put to Eval, on the input built from the
\* stream's method and the received message; RecvMsg returns nil (the
\* handler gets the message) only when Eval succeeded, and when Eval fails
\* RecvMsg returns that error.
C12_RecvMsgAuthorizesAfterReceiving ==
    \A c \in Calls :
        LET call == calls[c]
        IN call.kind = "sstream"
           => /\ call.arg # <<>>
                 => /\ call.recvd = <<[msg |-> call.req[1], err |-> NilErr]>>
                    /\ call.arg = <<NewRPCAuthInput(call.method, call.recvd[1].msg).input>>
              /\ call.ret # <<>> => Len(call.recvd) = 1
              /\ (call.ret # <<>> /\ call.ret[1].err = NilErr)
                 => call.evalRets = <<NilErr>>
              /\ call.evalRets # <<>>
                 => /\ call.pc = "open"
                    /\ call.ret = <<[resp |-> NoResp, err |-> call.evalRets[1]]>>
              /\ \A k \in 1..Len(call.log) :
                    call.log[k].err = NilErr
                    => /\ Buildable(call.log[k].msg)
                       /\ Expected(call, call.log[k].msg) = NilErr

C12_Witness ==
    \E c \in Calls :
        /\ calls[c].kind = "sstream"
        /\ Len(calls[c].log) = 2
        /\ Code(calls[c].log[1].err) = "PermissionDenied"
        /\ calls[c].log[2].err = NilErr
        /\ calls[c].ran # <<>>
        /\ calls[c].evalRets = <<NilErr>>

\* C13: on one wrapped client stream the authorization of a message does
\* not depend on how earlier messages on the stream ended: a message that
\* Eval allows is handed to the underlying SendMsg and one that Eval rejects
\* fails with Eval's error, whatever came before; for m1, m2, m3 where Eval
\* allows m1 and m3 and denies m2 the sends end nil, PermissionDenied, nil
\* and m1, m3 are transmitted, unless the transport has ended the stream.
C13_SendsAreIndependent ==
    \A c \in Calls :
        LET call == calls[c]
        IN call.kind = "cstream"
           => /\ \A k \in 1..Len(call.log) :
                    LET e == call.log[k]
                    IN Buildable(e.msg)
                       => IF Expected(call, e.msg) = NilErr
                          THEN e.attempted /\ e.err \in {NilErr, StreamClosed}
                          ELSE ~e.attempted /\ e.err = Expected(call, e.msg)
              /\ (/\ Len(call.log) = 3
                  /\ call.log[1].msg = ProtoAllow
                  /\ call.log[2].msg = ProtoDeny
                  /\ call.log[3].msg = ProtoAllow
                  /\ Expected(call, ProtoAllow) = NilErr
                  /\ Code(Expected(call, ProtoDeny)) = "PermissionDenied"
                  /\ ~call.torn)
                 => /\ call.log[1].err = NilErr
                    /\ Code(call.log[2].err) = "PermissionDenied"
                    /\ call.log[3].err = NilErr
                    /\ call.wire = <<ProtoAllow, ProtoAllow>>

C13_Witness ==
    \E c \in Calls :
        /\ calls[c].kind = "cstream"
        /\ Len(calls[c].log) = 3
        /\ calls[c].log[1].msg = ProtoAllow /\ calls[c].log[1].err = NilErr
        /\ calls[c].log[2].msg = ProtoDeny
        /\ Code(calls[c].log[2].err) = "PermissionDenied"
        /\ calls[c].log[3].msg = ProtoAllow /\ calls[c].log[3].err = NilErr
        /\ calls[c].wire = <<ProtoAllow, ProtoAllow>>

\* C14 as stated: an Eval whose ctx is cancelled while a hook or the
\* evaluator is running returns a cancellation-classified error, never
\* PermissionDenied, Internal or nil.
C14_CancelledEvalReturnsCanceled ==
    \A c \in Calls :
        (calls[c].cancelled /\ calls[c].evalRets # <<>>)
        => /\ calls[c].evalRets[1].kind = "status"
           /\ Code(calls[c].evalRets[1]) = "Canceled"

\* C14, amended: an Eval whose ctx is cancelled while a hook or the
\* evaluator is running, and to which that collaborator reports the
\* cancellation, returns an error, never nil and never PermissionDenied; it
\* is Canceled-classified only when a hook returned a status-classified
\* cancellation error, and otherwise (a plain cancellation error from a
\* hook, any from the evaluator) Internal-classified and carrying the
\* cancellation message.
C14_CancelledEvalNeverDecides ==
    \A c \in Calls :
        LET call == calls[c]
            byHook == call.ran # <<>> /\ call.ran[Len(call.ran)].err # NilErr
        IN (call.cancelled /\ call.evalRets # <<>>)
           => /\ call.evalRets[1].kind = "status"
              /\ Code(call.evalRets[1]) \in {"Canceled", "Internal"}
              /\ Code(call.evalRets[1]) = "Canceled"
                 <=> (byHook /\ FromErrorOk(call.ran[Len(call.ran)].err))
              /\ Code(call.evalRets[1]) = "Canceled"
                 => call.evalRets[1] = call.ran[Len(call.ran)].err
              /\ Code(call.evalRets[1]) = "Internal"
                 => Carries(call.evalRets[1], ContextCanceled)
              /\ ~byHook => (Len(call.polRets) = 1 /\ call.polRets[1].err # NilErr)

C14_Witness ==
    \E c \in Calls :
        /\ calls[c].cancelled
        /\ calls[c].polRets # <<>>
        /\ calls[c].ran # <<>>
        /\ calls[c].evalRets # <<>>
        /\ Code(calls[c].evalRets[1]) = "Internal"

\* The errors of a call that the authorization layer itself produced: what
\* Eval returned, and what the adapter returned unless that is the error of
\* the handler, invoker or underlying stream.
LayerErrors(call) ==
    {call.evalRets[k] : k \in 1..Len(call.evalRets)}
    \cup {call.ret[k].err : k \in {j \in 1..Len(call.ret) :
              /\ ~(call.nextRets # <<>> /\ call.ret[j].err = call.nextRets[1].err)
              /\ ~(call.recvd # <<>> /\ call.recvd[1].err # NilErr)}}

\* C15 as stated: every error the authorization layer itself returns is
\* classified InvalidArgument, Internal or PermissionDenied.
C15_ErrorsAreOfThreeCodes ==
    \A c \in Calls :
        \A e \in LayerErrors(calls[c]) \ {NilErr} :
            /\ e.kind = "status"
            /\ Code(e) \in {"InvalidArgument", "Internal", "PermissionDenied"}

\* C15, amended: every error the authorization layer itself returns is a
\* status error, classified InvalidArgument, Internal or PermissionDenied,
\* or else it is the already-classified error of a hook, handed on
\* unchanged with the code the hook chose.
C15_ErrorsAreClassified ==
    \A c \in Calls :
        LET call == calls[c]
        IN \A e \in LayerErrors(call) \ {NilErr} :
              /\ e.kind = "status"
              /\ \/ Code(e) \in {"InvalidArgument", "Internal", "PermissionDenied"}
                 \/ /\ call.ran # <<>>
                    /\ e = call.ran[Len(call.ran)].err
                    /\ call.polRets = <<>>

C15_Witness ==
    \E c \in Calls :
        /\ calls[c].kind = "sstream"
        /\ calls[c].ret # <<>>
        /\ Code(calls[c].ret[1].err) = "Unauthenticated"
        /\ Len(calls[c].log) = 2
        /\ Code(calls[c].log[1].err) = "Internal"

\* C16 as stated: on every failure path Eval leaves the caller's AuthInput
\* as it was before the call.
C16_FailedEvalLeavesInputUntouched ==
    \A c \in Calls :
        (calls[c].evalRets # <<>> /\ calls[c].evalRets[1] # NilErr)
        => calls[c].input = calls[c].arg[1]

\* C16, amended: on every failure path Eval leaves the Authorizer as it was
\* and the call is rejected as a whole (no handler or invoker runs); the
\* caller's AuthInput is left as the hooks that ran made it, which is as it
\* was before the call when the input was nil or no hook changed it.
C16_FailedEvalRejectsWholly ==
    /\ [](\A c \in Calls :
            LET call == calls[c]
            IN (call.evalRets # <<>> /\ call.evalRets[1] # NilErr)
               => /\ call.nextArgs = <<>>
                  /\ call.ret = <<[resp |-> NoResp, err |-> call.evalRets[1]]>>
                  /\ call.input = IF call.ran = <<>> THEN call.arg[1]
                                  ELSE call.ran[Len(call.ran)].after
                  /\ call.arg[1].isNil => call.input = call.arg[1]
                  /\ (\A k \in 1..Len(call.ran) : call.ran[k].hook # "setX")
                     => call.input = call.arg[1])
    /\ [][authz' = authz]_vars

C16_Witness ==
    \E c \in Calls :
        /\ calls[c].kind = "server"
        /\ calls[c].evalRets # <<>>
        /\ Code(calls[c].evalRets[1]) = "PermissionDenied"
        /\ calls[c].polRets # <<>>
        /\ calls[c].input # calls[c].arg[1]
        /\ calls[c].pc = "done"

\* C17: Eval calls running concurrently on one Authorizer do not interfere:
\* in every interleaving what a call's Eval returns is what Eval on that
\* call's input alone returns, two calls given the same input get the same
\* answer, and no step changes the Authorizer's policy or hook list.
C17_ConcurrentEvalsDoNotInterfere ==
    /\ [](\A c \in Calls :
            /\ \A k \in 1..Len(calls[c].evalRets) :
                  calls[c].evalRets[k] = EvalOutcome(authz, calls[c].arg[k])
            /\ \A d \in Calls :
                  (/\ calls[c].evalRets # <<>>
                   /\ calls[d].evalRets # <<>>
                   /\ calls[c].arg = calls[d].arg)
                  => calls[c].evalRets = calls[d].evalRets)
    /\ [][authz' = authz]_vars

C17_Witness ==
    \E c \in Calls, d \in Calls :
        /\ c # d
        /\ calls[c].pc = "hooks" /\ Len(calls[c].ran) = 1
        /\ calls[d].pc = "policy" /\ Len(calls[d].ran) = 3
        /\ calls[c].arg # calls[d].arg
        /\ calls[c].input.X = 1

\* C18: in each of the four adapters, when no AuthInput can be built from
\* the message (it is no protocol message, or NewRPCAuthInput fails) the
\* operation fails with an Internal-classified error, Eval is not invoked
\* and neither is the handler, the invoker or the underlying send.
C18_UnbuildableMessageIsInternal ==
    \A c \in Calls :
        LET call == calls[c]
        IN (/\ call.kind \in {"server", "client", "cstream", "sstream"}
            /\ call.req # <<>>
            /\ ~Buildable(call.req[1])
            /\ ~(call.recvd # <<>> /\ call.recvd[1].err # NilErr))
           => /\ Len(call.ret) = 1
              /\ call.ret[1].err.kind = "status"
              /\ Code(call.ret[1].err) = "Internal"
              /\ call.arg = <<>>
              /\ call.ran = <<>>
              /\ call.polArgs = <<>>
              /\ call.evalRets = <<>>
              /\ call.nextArgs = <<>>
              /\ call.pc \in {"done", "open"}

C18_Witness ==
    \E c \in Calls :
        /\ calls[c].kind = "sstream"
        /\ Len(calls[c].log) = 3
        /\ calls[c].log[1].msg = NotProto
        /\ calls[c].log[2].err = NilErr
        /\ calls[c].req = <<ProtoOpaque>>
        /\ Code(calls[c].ret[1].err) = "Internal"

\* C19: one unary server call, one unary client call, one SendMsg and one
\* RecvMsg that received a message each invoke Eval exactly once when a
\* message can be put to Eval (never zero when the call goes on to the
\* handler, invoker or underlying send, never more than one), and within
\* that Eval each hook and the evaluator run at most once.
C19_OneEvalPerDecision ==
    \A c \in Calls :
        LET call == calls[c]
        IN call.kind \in {"server", "client", "cstream", "sstream"}
           => /\ Len(call.arg) <= 1
              /\ Len(call.evalRets) <= Len(call.arg)
              /\ (call.ret # <<>> /\ call.req # <<>> /\ Buildable(call.req[1]))
                 => (Len(call.arg) = 1 /\ Len(call.evalRets) = 1)
              /\ call.nextArgs # <<>> => (Len(call.arg) = 1 /\ Len(call.nextArgs) = 1)
              /\ Len(call.polArgs) <= 1
              /\ Len(call.ran) <= Len(authz.hooks)
              /\ \A k \in 1..Len(call.ran) : call.ran[k].hook = authz.hooks[k]

C19_Witness ==
    \E c \in Calls :
        /\ calls[c].kind = "cstream"
        /\ Len(calls[c].log) = 2
        /\ Len(calls[c].arg) = 1
        /\ Len(calls[c].ran) = 2
        /\ Len(calls[c].polArgs) = 1
        /\ Len(calls[c].nextArgs) = 1
        /\ calls[c].pc = "open"

\* An operation that ended with an error of the authorization layer.
AuthFailed(e) == e.err # NilErr /\ e.err \notin RecvErrors /\ ~e.attempted

\* C20 as stated: once a message has failed authorization on a wrapped
\* stream, every later SendMsg / RecvMsg on that stream fails.
C20_FaultedStreamStaysFaulted ==
    \A c \in Calls :
        \A j \in 1..Len(calls[c].log), k \in 1..Len(calls[c].log) :
            (j < k /\ AuthFailed(calls[c].log[j])) => calls[c].log[k].err # NilErr

\* C20, amended: the operation on which a message fails authorization fails
\* and the message is not forwarded, but the wrapped stream keeps no fault
\* state and stays open: a later SendMsg / RecvMsg is authorized on its own
\* message and is forwarded when Eval allows that message, failing only by
\* its own Eval or by the underlying stream.
C20_FaultIsPerOperation ==
    \A c \in Calls :
        LET call == calls[c]
        IN call.kind \in {"cstream", "sstream"}
           => /\ call.pc \in {"open", "hooks", "policy", "next", "done"}
              /\ call.pc = "done" => call.log = <<>>
              /\ \A k \in 1..Len(call.log) :
                    LET e == call.log[k]
                        faulted == \E j \in 1..(k - 1) : AuthFailed(call.log[j])
                    IN /\ AuthFailed(e) => ~e.attempted
                       /\ (faulted /\ Buildable(e.msg))
                          => IF Expected(call, e.msg) = NilErr
                             THEN IF call.kind = "cstream"
                                  THEN e.attempted /\ e.err \in {NilErr, StreamClosed}
                                  ELSE e.err = NilErr
                             ELSE e.err = Expected(call, e.msg)

C20_Witness ==
    \E c \in Calls :
        /\ calls[c].kind = "sstream"
        /\ Len(calls[c].log) = 2
        /\ Code(calls[c].log[1].err) = "PermissionDenied"
        /\ calls[c].log[2].err = NilErr
        /\ calls[c].log[2].msg = ProtoAllow

\* A client stream on which no SendMsg has started: it was just opened, or
\* the streamer refused to open it.
Unused(call) == call.kind = "cstream" /\ call.log = <<>> /\ call.pc \in {"open", "done"}

\* The record of every Eval made for the call's operation in progress.
EvalHistory(call) == <<call.arg, call.ran, call.polArgs, call.polRets, call.evalRets>>

\* C21 as stated: opening and half-closing a client stream perform no
\* authorization and return exactly what the underlying streamer / stream
\* returned, the streamer's error on opening included.
C21_LifecyclePassesThrough ==
    \A c \in Calls :
        LET call == calls[c]
        IN call.kind = "cstream"
           => /\ Unused(call) => EvalHistory(call) = <<<<>>, <<>>, <<>>, <<>>, <<>>>>
              /\ (call.pc = "done" /\ call.nextRets # <<>>)
                 => call.ret = <<[resp |-> NoResp, err |-> call.nextRets[1].err]>>
              /\ call.closeSend # <<>> => call.closeSend[1].ret = call.closeSend[1].under

\* C21, amended: opening and half-closing a client stream perform no
\* authorization; a successful open and a half-close return what the
\* underlying streamer / stream returned, but an error of the streamer on
\* opening is returned as a new Internal error whose text ends with the
\* streamer's, so the streamer's own status code is not what the caller gets.
C21_OpenErrorIsInternal ==
    /\ [](\A c \in Calls :
            LET call == calls[c]
            IN call.kind = "cstream"
               => /\ Unused(call) => EvalHistory(call) = <<<<>>, <<>>, <<>>, <<>>, <<>>>>
                  /\ call.pc = "done"
                     => /\ call.nextRets # <<>>
                        /\ call.nextRets[1].err # NilErr
                        /\ Len(call.ret) = 1
                        /\ call.ret[1].resp = NoResp
                        /\ FromErrorOk(call.ret[1].err)
                        /\ Code(call.ret[1].err) = "Internal"
                        /\ Carries(call.ret[1].err, call.nextRets[1].err)
                        /\ call.ret[1].err # call.nextRets[1].err
                  /\ call.closeSend # <<>>
                     => call.closeSend[1].ret = call.closeSend[1].under)
    /\ [][\A c \in Calls :
            (calls[c].kind = "cstream" /\ calls'[c].closeSend # calls[c].closeSend
             /\ calls'[c].closeSend # <<>>)
            => /\ EvalHistory(calls'[c]) = EvalHistory(calls[c])
               /\ calls'[c].log = calls[c].log
               /\ calls'[c].wire = calls[c].wire]_vars

C21_Witness ==
    \E c \in Calls :
        /\ calls[c].kind = "cstream"
        /\ calls[c].pc = "done"
        /\ authz.hooks # <<>>
        /\ Code(calls[c].nextRets[1].err) = "Unavailable"
        /\ Code(calls[c].ret[1].err) = "Internal"

\* The call's Eval was refused by the evaluator's decision (allowed = false,
\* no error), after whatever hooks there are.
PolicyDenied(call) ==
    /\ call.polRets # <<>>
    /\ call.polRets[1] = [allowed |-> FALSE, err |-> NilErr]
    /\ call.evalRets # <<>>

\* The pieces of an input that an error text could repeat.
InputPieces(input) ==
    {input.method, input.type} \cup {input.message[i] : i \in 1..Len(input.message)}

\* C22: the PermissionDenied error of a policy denial is one fixed error:
\* any two Evals that the evaluator denies, whatever their inputs, return
\* the identical error, and its text repeats no piece of the input.
C22_DenialIsGeneric ==
    \A c \in Calls, d \in Calls :
        (PolicyDenied(calls[c]) /\ PolicyDenied(calls[d]))
        => /\ calls[c].evalRets[1] = calls[d].evalRets[1]
           /\ calls[c].evalRets[1] =
                 StatusError("PermissionDenied", <<"OPA policy does not permit this request">>)
           /\ \A i \in 1..Len(calls[c].evalRets[1].msg) :
                 calls[c].evalRets[1].msg[i] \notin
                     (InputPieces(calls[c].arg[1]) \cup InputPieces(calls[c].polArgs[1]))

C22_Witness ==
    \E c \in Calls, d \in Calls :
        /\ c # d
        /\ PolicyDenied(calls[c])
        /\ PolicyDenied(calls[d])
        /\ calls[c].arg[1].method # calls[d].arg[1].method
        /\ calls[c].polArgs[1] # calls[d].polArgs[1]
        /\ calls[c].ran # <<>>

\* C23: when the underlying stream's RecvMsg returns an error, end of stream
\* included, the wrapped RecvMsg returns that very error, and no AuthInput
\* is built and no hook or evaluator is called for that receive.
C23_RecvErrorPassesThrough ==
    \A c \in Calls :
        LET call == calls[c]
        IN (call.kind = "sstream" /\ call.recvd # <<>> /\ call.recvd[1].err # NilErr)
           => /\ call.pc = "open"
              /\ call.ret = <<[resp |-> NoResp, err |-> call.recvd[1].err]>>
              /\ call.log[Len(call.log)].err = call.recvd[1].err
              /\ call.input = NilInput
              /\ EvalHistory(call) = <<<<>>, <<>>, <<>>, <<>>, <<>>>>
              /\ call.nextArgs = <<>>

C23_Witness ==
    \E c \in Calls :
        /\ calls[c].kind = "sstream"
        /\ authz.hooks # <<>>
        /\ Len(calls[c].log) = 2
        /\ calls[c].log[1].err = NilErr
        /\ calls[c].recvd # <<>>
        /\ Code(calls[c].recvd[1].err) = "Unavailable"
        /\ calls[c].ret # <<>>
====
